---- MODULE Spec2Model ----
(***************************************************************************)
(* Attendance compilation and behavioural analytics of the employee        *)
(* management dashboard:                                                   *)
(*   app/attendance_compiler.py              compile_daily_attendance      *)
(*   app/analytics/attendance_intelligence.py  the analytics functions     *)
(* Dates are day numbers; day 0 is a Monday, so date.weekday() = d % 7.    *)
(***************************************************************************)
EXTENDS Integers, Sequences, FiniteSets, Bags, TLC

\* Python None: of a string-valued field, and of a date- or time-valued field.
None == "None"
Null == -1

Employees == {"E1", "E2"}

Sessions == {1, 2}

\* Target dates of the compiler: a Friday and a Saturday.
Dates == {4, 5}

VARIABLES
    today,           \* the clock's date.today()
    users,           \* User.is_active, by employee_id
    departments,     \* User.department, by employee_id
    leave_requests,  \* LeaveRequest rows
    holidays,        \* OfficeHoliday.event_date values
    attendance,      \* Attendance rows (raw facts)
    daily,           \* committed AttendanceDaily rows, a bag
    sess,            \* one compile_daily_attendance run per database session
    df,              \* the attendance table handed to the analytics
    result           \* what the last analytics call returned or raised

vars == <<today, users, departments, leave_requests, holidays, attendance,
          daily, sess, df, result>>

storeVars == <<today, users, departments, leave_requests, holidays, attendance>>

analyticsVars == <<df, result>>

-----------------------------------------------------------------------------
(* The relational store the compiler reads.                                *)

\* Leave requests, office holidays and raw facts the rest of the application
\* may hold for the two target dates.
CompilerLeaves ==
    {[employee_id |-> "E1", status |-> "Approved", start_date |-> 4, end_date |-> 5],
     [employee_id |-> "E2", status |-> "Approved", start_date |-> 5, end_date |-> 5],
     [employee_id |-> "E2", status |-> "Pending", start_date |-> 4, end_date |-> 4]}

CompilerFacts ==
    {[employee_id |-> "E1", date |-> 4, entry_time |-> 9, duration |-> 8, status |-> "PRESENT"],
     [employee_id |-> "E1", date |-> 4, entry_time |-> Null, duration |-> 0, status |-> "ABSENT"],
     [employee_id |-> "E2", date |-> 5, entry_time |-> 9, duration |-> 8, status |-> "PRESENT"]}

NoTable == [columns |-> {}, rows |-> EmptyBag]

NoResult == [fn |-> "none"]

\* A session outside a run.  error is the exception the last run raised and
\* discarded the number of prepared rows its rollback threw away.
Finished(outcome, err, n) ==
    [pc |-> outcome, target_date |-> Null, users |-> {}, todo |-> {},
     user |-> None, pending |-> EmptyBag, error |-> err, discarded |-> n]

IdleSession == Finished("idle", None, 0)

-----------------------------------------------------------------------------
(* compile_daily_attendance                                                *)

\* Number of rows of bag B for (employee, date).
RowsFor(B, e, d) ==
    LET hit == {r \in BagToSet(B) : r.employee_id = e /\ r.date = d}
        RECURSIVE Sum(_)
        Sum(S) == IF S = {} THEN 0
                  ELSE LET r == CHOOSE x \in S : TRUE
                       IN  CopiesIn(r, B) + Sum(S \ {r})
    IN  Sum(hit)

\* users = db.query(User).filter(User.is_active == True).all()
ActiveUsers == {e \in Employees : users[e]}

\* Mutant: the existence query looks in the session's own rows only.
ExistsInSessionOnly(s, e, d) == RowsFor(sess[s].pending, e, d) > 0

\* The existence query of a run: committed rows and the rows the run's own
\* session holds (the session flushes before it queries).
Exists(s, e, d) == RowsFor(daily (+) sess[s].pending, e, d) > 0

ApprovedLeave(e, d) ==
    \E l \in leave_requests :
        /\ l.employee_id = e
        /\ l.status = "Approved"
        /\ l.start_date <= d
        /\ l.end_date >= d

IsHoliday(d) == d \in holidays

IsWeekend(d) == d % 7 >= 5

FactsFor(e, d) == {a \in attendance : a.employee_id = e /\ a.date = d}

\* Mutant: the holiday test comes before the leave test.
ResolutionsHolidayFirst(e, d) ==
    IF IsHoliday(d) THEN {[status |-> "HOLIDAY", check_in_time |-> Null]}
    ELSE IF ApprovedLeave(e, d) THEN {[status |-> "LEAVE", check_in_time |-> Null]}
    ELSE IF IsWeekend(d) THEN {[status |-> "WEEKEND", check_in_time |-> Null]}
    ELSE IF FactsFor(e, d) # {}
         THEN {[status |-> "PRESENT", check_in_time |-> a.entry_time] :
                   a \in FactsFor(e, d)}
         ELSE {[status |-> "ABSENT", check_in_time |-> Null]}

\* The status and check-in time the run gives employee e on date d.  The
\* attendance query's .first() returns any one matching row.
Resolutions(e, d) ==
    IF ApprovedLeave(e, d) THEN {[status |-> "LEAVE", check_in_time |-> Null]}
    ELSE IF IsHoliday(d) THEN {[status |-> "HOLIDAY", check_in_time |-> Null]}
    ELSE IF IsWeekend(d) THEN {[status |-> "WEEKEND", check_in_time |-> Null]}
    ELSE IF FactsFor(e, d) # {}
         THEN {[status |-> "PRESENT", check_in_time |-> a.entry_time] :
                   a \in FactsFor(e, d)}
         ELSE {[status |-> "ABSENT", check_in_time |-> Null]}

DailyRow(e, d, res) ==
    [employee_id |-> e, date |-> d, status |-> res.status,
     check_in_time |-> res.check_in_time]

\* Mutant: the table has no uniqueness constraint.
NoConstraint(B, P) == FALSE

\* The uniqueness constraint of AttendanceDaily on (employee_id, date): true
\* when committing the bag P on top of the bag B would break it.
UniqueViolation(B, P) ==
    \E r \in BagToSet(P) : RowsFor(B (+) P, r.employee_id, r.date) > 1

\* The call: target_date defaults to date.today(), and the active users are
\* read.  The callers compile the current day, by default or by naming it.
StartRun(s) ==
    /\ sess[s].pc \in {"idle", "done", "failed"}
    /\ \E arg \in {today, Null} :
          sess' = [sess EXCEPT ![s] =
                      [pc |-> "loop",
                       target_date |-> IF arg = Null THEN today ELSE arg,
                       users |-> ActiveUsers,
                       todo |-> ActiveUsers, user |-> None,
                       pending |-> EmptyBag, error |-> None,
                       discarded |-> 0]]
    /\ UNCHANGED <<storeVars, daily, analyticsVars>>

\* for user in users: the existence check, and continue when a row exists.
CheckExists(s) ==
    /\ sess[s].pc = "loop"
    /\ sess[s].todo # {}
    /\ \E e \in sess[s].todo :
          sess' = [sess EXCEPT
                      ![s].todo = @ \ {e},
                      ![s].user = IF Exists(s, e, sess[s].target_date)
                                  THEN None ELSE e,
                      ![s].pc = IF Exists(s, e, sess[s].target_date)
                                THEN "loop" ELSE "resolve"]
    /\ UNCHANGED <<storeVars, daily, analyticsVars>>

\* Mutant: db.commit() inside the loop, after each db.add.
AddAndCommit(s) ==
    /\ sess[s].pc = "resolve"
    /\ \E res \in Resolutions(sess[s].user, sess[s].target_date) :
          daily' = daily (+) SetToBag({DailyRow(sess[s].user,
                                                sess[s].target_date, res)})
    /\ sess' = [sess EXCEPT ![s].user = None, ![s].pc = "loop"]
    /\ UNCHANGED <<storeVars, analyticsVars>>

\* The precedence chain and db.add of the new row.
ResolveAndAdd(s) ==
    /\ sess[s].pc = "resolve"
    /\ \E res \in Resolutions(sess[s].user, sess[s].target_date) :
          sess' = [sess EXCEPT
                      ![s].pending =
                          @ (+) SetToBag({DailyRow(sess[s].user,
                                                   sess[s].target_date, res)}),
                      ![s].user = None,
                      ![s].pc = "loop"]
    /\ UNCHANGED <<storeVars, daily, analyticsVars>>

\* db.commit(): every pending row is committed, or the constraint rejects the
\* transaction and none is.
Commit(s) ==
    /\ sess[s].pc = "loop"
    /\ sess[s].todo = {}
    /\ IF UniqueViolation(daily, sess[s].pending)
       THEN /\ sess' = [sess EXCEPT ![s] =
                           Finished("failed", "IntegrityError",
                                    BagCardinality(sess[s].pending))]
            /\ UNCHANGED daily
       ELSE /\ daily' = daily (+) sess[s].pending
            /\ sess' = [sess EXCEPT ![s] = Finished("done", None, 0)]
    /\ UNCHANGED <<storeVars, analyticsVars>>

\* A query or the flush raises (the store is unavailable): the exception
\* leaves compile_daily_attendance before db.commit() and the session's
\* transaction is rolled back.
PersistenceFailure(s) ==
    /\ sess[s].pc \in {"loop", "resolve"}
    /\ sess' = [sess EXCEPT ![s] =
                   Finished("failed", "OperationalError",
                            BagCardinality(sess[s].pending))]
    /\ UNCHANGED <<storeVars, daily, analyticsVars>>

-----------------------------------------------------------------------------
(* The rest of the application changes the facts the compiler reads.       *)

Toggle(S, x) == IF x \in S THEN S \ {x} ELSE S \cup {x}

ChangeLeaves ==
    /\ \E l \in CompilerLeaves : leave_requests' = Toggle(leave_requests, l)
    /\ UNCHANGED <<today, users, departments, holidays, attendance, daily, sess,
                   analyticsVars>>

ChangeHolidays ==
    /\ \E d \in Dates : holidays' = Toggle(holidays, d)
    /\ UNCHANGED <<today, users, departments, leave_requests, attendance, daily, sess,
                   analyticsVars>>

ChangeAttendance ==
    /\ \E a \in CompilerFacts : attendance' = Toggle(attendance, a)
    /\ UNCHANGED <<today, users, departments, leave_requests, holidays, daily, sess,
                   analyticsVars>>

-----------------------------------------------------------------------------
(* Compilation: concurrent runs over a fixed environment (Spec), and runs   *)
(* one after another while the environment changes (SpecSeq).              *)

\* A row an earlier day's run left for E1.
CompiledYesterday ==
    [employee_id |-> "E1", date |-> today - 1, status |-> "ABSENT",
     check_in_time |-> Null]

Init ==
    /\ today \in Dates
    /\ users \in [Employees -> BOOLEAN]
    /\ departments = [e \in Employees |-> "Sales"]
    /\ leave_requests \in SUBSET CompilerLeaves
    /\ holidays \in SUBSET Dates
    /\ attendance \in SUBSET CompilerFacts
    /\ daily \in {EmptyBag, SetToBag({CompiledYesterday})}
    /\ sess = [s \in Sessions |-> IdleSession]
    /\ df = NoTable
    /\ result = NoResult

Run(s) ==
    \/ StartRun(s)
    \/ CheckExists(s)
    \/ ResolveAndAdd(s)
    \/ Commit(s)
    \/ PersistenceFailure(s)

Next == \E s \in Sessions : Run(s)

Spec == Init /\ [][Next]_vars

NextSeq ==
    \/ Run(1)
    \/ ChangeLeaves
    \/ ChangeHolidays
    \/ ChangeAttendance

SpecSeq == Init /\ [][NextSeq]_vars

-----------------------------------------------------------------------------
(* Attendance tables (pandas DataFrames): the columns, and the rows as a    *)
(* bag of records.  An entry_time is kept as its hour of the day, and hours *)
(* worked as whole hours; rounded figures are kept in hundredths.          *)

AllColumns == {"employee_id", "date", "entry_time", "duration", "status"}

\* The bags of at most n elements of S.
BagsUpTo(S, n) ==
    {B \in UNION {[T -> 1 .. n] : T \in SUBSET S} : BagCardinality(B) <= n}

\* The bag of f[x] for the elements x of the set S.
RECURSIVE BagOfImage(_, _)
BagOfImage(f, S) ==
    IF S = {} THEN EmptyBag
    ELSE LET x == CHOOSE y \in S : TRUE
         IN  SetToBag({f[x]}) (+) BagOfImage(f, S \ {x})

\* The sum of f[r] over the rows of bag B, copies counted.
RECURSIVE SumOver(_, _)
SumOver(f, B) ==
    IF B = EmptyBag THEN 0
    ELSE LET r == CHOOSE x \in BagToSet(B) : TRUE
         IN  f[r] * CopiesIn(r, B)
                 + SumOver(f, [x \in BagToSet(B) \ {r} |-> B[x]])

\* df.empty: no rows or no columns.
IsEmpty(t) == t.columns = {} \/ t.rows = EmptyBag

\* A Python value tested as a condition, for an employee_id argument.
Truthy(x) == x \notin {None, ""}

\* round(n / d, 2) in hundredths, ties to even, for n >= 0 and d > 0.
Round2(n, d) ==
    LET q == (100 * n) \div d
        r == (100 * n) % d
    IN  IF 2 * r > d \/ (2 * r = d /\ q % 2 = 1) THEN q + 1 ELSE q

-----------------------------------------------------------------------------
(* get_attendance_dataframe                                                *)

WindowDays == 180

get_attendance_dataframe(employee_id) ==
    LET rows == {r \in attendance :
                    /\ Truthy(employee_id) => r.employee_id = employee_id
                    /\ r.date >= today - WindowDays}
        data == {r \in rows : r.entry_time # Null}
        row == [r \in data |->
                   [employee_id |-> r.employee_id, date |-> r.date,
                    entry_time |-> r.entry_time,
                    duration |-> IF r.duration = Null THEN 0 ELSE r.duration,
                    status |-> r.status]]
    IN  IF data = {} THEN [columns |-> {}, rows |-> EmptyBag]
        ELSE [columns |-> AllColumns, rows |-> BagOfImage(row, data)]

-----------------------------------------------------------------------------
(* compute_behavior_metrics                                                *)

DefaultMetrics ==
    [average_login_hour |-> 0, average_work_hours |-> 0,
     late_arrival_days |-> 0, absent_days |-> 0, leave_days |-> 0,
     present_days |-> 0, min_work_hours |-> 0, max_work_hours |-> 0,
     total_days_analyzed |-> 0, absence_trend |-> "stable",
     attendance_score |-> 0, risk_level |-> "high",
     chart_breakdown |-> [labels |-> << >>, values |-> << >>]]

KeyError(column) == [raised |-> "KeyError", key |-> column]

\* The number of rows of bag B that are in the set S.
CountRows(B, S) ==
    SumOver([r \in BagToSet(B) |-> IF r \in S THEN 1 ELSE 0], B)

\* The leave days of the employee: every Approved request, whole history.
LeaveDays(db, employee_id) ==
    IF Truthy(employee_id) /\ db
    THEN LET leaves == {l \in leave_requests :
                           /\ l.employee_id = employee_id
                           /\ l.status = "Approved"}
         IN  SumOver([l \in leaves |-> (l.end_date - l.start_date) + 1],
                     SetToBag(leaves))
    ELSE 0

Max(a, b) == IF a >= b THEN a ELSE b

AttendanceScore(present, absent, late, leave_days) ==
    LET score == 100 - late * 2 - absent * 6 - leave_days * 1
    IN  Max(0, IF present = 0 THEN 0 ELSE score)

\* Mutant: the boundaries are compared with <=.
RiskLevelInclusive(score) ==
    IF score <= 60 THEN "high" ELSE IF score <= 80 THEN "medium" ELSE "low"

RiskLevel(score) ==
    IF score < 60 THEN "high" ELSE IF score < 80 THEN "medium" ELSE "low"

compute_behavior_metrics(t, db, employee_id) ==
    IF IsEmpty(t) THEN DefaultMetrics
    ELSE IF "entry_time" \notin t.columns THEN DefaultMetrics
    ELSE IF "status" \notin t.columns THEN KeyError("status")
    ELSE LET n == BagCardinality(t.rows)
             rows == BagToSet(t.rows)
             present == CountRows(t.rows, {r \in rows : r.status = "PRESENT"})
             absent == CountRows(t.rows, {r \in rows : r.status = "ABSENT"})
             late == CountRows(t.rows, {r \in rows : r.entry_time > 10})
             leave_days == LeaveDays(db, employee_id)
             hours == {r.duration : r \in BagToSet(t.rows)}
             score == AttendanceScore(present, absent, late, leave_days)
         IN  IF "duration" \notin t.columns THEN KeyError("duration")
             ELSE [average_login_hour |->
                       Round2(SumOver([r \in BagToSet(t.rows) |-> r.entry_time],
                                      t.rows), n),
                   average_work_hours |->
                       Round2(SumOver([r \in BagToSet(t.rows) |-> r.duration],
                                      t.rows), n),
                   late_arrival_days |-> late,
                   absent_days |-> absent,
                   leave_days |-> leave_days,
                   present_days |-> present,
                   min_work_hours |->
                       100 * (CHOOSE h \in hours : \A g \in hours : h <= g),
                   max_work_hours |->
                       100 * (CHOOSE h \in hours : \A g \in hours : h >= g),
                   total_days_analyzed |-> n,
                   absence_trend |-> "stable",
                   attendance_score |-> score,
                   risk_level |-> RiskLevel(score),
                   chart_breakdown |->
                       [labels |-> <<"Present", "Absent", "Leave", "Late">>,
                        values |-> <<present, absent, leave_days, late>>]]

-----------------------------------------------------------------------------
(* The metrics engine on any table a caller hands it (SpecMetrics).        *)

MaxMetricRows == 2
MaxMetricLeaves == 1

MetricRows ==
    [employee_id : {"E1"}, date : {0}, entry_time : {9, 11}, duration : {8},
     status : {"PRESENT", "ABSENT"}]

MetricColumns ==
    {AllColumns, {}} \cup
    {AllColumns \ {c} : c \in {"entry_time", "status", "duration"}}

\* Requests of 20, 21, 40 and 41 days, of one day, and one that ends before
\* it starts.
LeaveSpans == {<<0, 19>>, <<0, 20>>, <<0, 39>>, <<0, 40>>, <<5, 5>>, <<5, 0>>}

MetricLeaves ==
    {[employee_id |-> e, status |-> st, start_date |-> sp[1], end_date |-> sp[2]] :
        e \in Employees, st \in {"Approved", "Pending"}, sp \in LeaveSpans}

EmployeeArgs == Employees \cup {None, ""}

Idle ==
    /\ users = [e \in Employees |-> TRUE]
    /\ departments = [e \in Employees |-> "Sales"]
    /\ holidays = {}
    /\ daily = EmptyBag
    /\ sess = [s \in Sessions |-> IdleSession]
    /\ result = NoResult

InitMetrics ==
    /\ Idle
    /\ today = 0
    /\ attendance = {}
    /\ leave_requests \in {L \in SUBSET MetricLeaves :
                              Cardinality(L) <= MaxMetricLeaves}
    /\ df \in [columns : MetricColumns,
               rows : BagsUpTo(MetricRows, MaxMetricRows)]

ComputeMetrics ==
    /\ \E employee_id \in EmployeeArgs, db \in BOOLEAN :
          result' = [fn |-> "compute_behavior_metrics",
                     employee_id |-> employee_id, db |-> db,
                     out |-> compute_behavior_metrics(df, db, employee_id)]
    /\ UNCHANGED <<storeVars, daily, sess, df>>

SpecMetrics == InitMetrics /\ [][ComputeMetrics]_vars

-----------------------------------------------------------------------------
(* predict_absenteeism_risk                                                *)

RiskDays == 90

predict_absenteeism_risk(employee_id) ==
    LET three_months_ago == today - RiskDays
        recent_absents ==
            Cardinality({a \in attendance :
                            /\ a.employee_id = employee_id
                            /\ a.status = "ABSENT"
                            /\ a.date >= three_months_ago})
        metrics == compute_behavior_metrics(
                       get_attendance_dataframe(employee_id), TRUE, employee_id)
        risk_score == recent_absents * 2
                          + IF metrics.attendance_score < 70 THEN 10 ELSE 0
    IN  [employee_id |-> employee_id,
         risk |-> IF risk_score >= 20 THEN "high"
                  ELSE IF risk_score >= 10 THEN "medium" ELSE "low",
         risk_score |-> risk_score]

-----------------------------------------------------------------------------
(* The extractor and the risk predictor over a store of raw facts          *)
(* (SpecRisk).                                                             *)

MaxFacts == 3

\* Days around the two windows' edges, and the day after today.
DayOffsets == {0 - 181, 0 - 180, 0 - 91, 0 - 90, 0, 1}

RiskFacts ==
    [employee_id : {"E1"}, date : {today + o : o \in DayOffsets},
     entry_time : {Null, 9}, duration : {8}, status : {"PRESENT", "ABSENT"}]
    \cup
    {[employee_id |-> "E2", date |-> today, entry_time |-> 9, duration |-> Null,
      status |-> "PRESENT"],
     [employee_id |-> "E2", date |-> today, entry_time |-> Null, duration |-> Null,
      status |-> "ABSENT"]}

\* Requests of 23 and of 35 days.
RiskLeaves ==
    {[employee_id |-> "E1", status |-> "Approved", start_date |-> 100, end_date |-> 122],
     [employee_id |-> "E1", status |-> "Approved", start_date |-> 130, end_date |-> 164]}

InitRisk ==
    /\ Idle
    /\ today = 200
    /\ attendance \in {F \in SUBSET RiskFacts : Cardinality(F) <= MaxFacts}
    /\ leave_requests \in SUBSET RiskLeaves
    /\ df = NoTable

\* An employee_id that no User row carries.
UnknownEmployees == {"E0"}

GetDataframe ==
    /\ \E employee_id \in EmployeeArgs \cup UnknownEmployees :
          result' = [fn |-> "get_attendance_dataframe",
                     employee_id |-> employee_id,
                     out |-> get_attendance_dataframe(employee_id)]
    /\ UNCHANGED <<storeVars, daily, sess, df>>

PredictRisk ==
    /\ \E employee_id \in Employees \cup UnknownEmployees :
          result' = [fn |-> "predict_absenteeism_risk",
                     employee_id |-> employee_id,
                     out |-> predict_absenteeism_risk(employee_id)]
    /\ UNCHANGED <<storeVars, daily, sess, df>>

NextRisk == GetDataframe \/ PredictRisk

SpecRisk == InitRisk /\ [][NextRisk]_vars

-----------------------------------------------------------------------------
(* detect_attendance_anomalies                                             *)

MinAnomalyRows == 10

\* Mutant: the population standard deviation (ddof = 0).
PopulationDivisor(n) == n

\* Series.std() divides the squared deviations by n - ddof, with ddof = 1.
StdDivisor(n) == n - 1

\* With n rows, S the sum and Q the sum of squares of the durations, the
\* squared deviations sum to (n * Q - S * S) / n, std * std is that over
\* StdDivisor(n), and z = (x - S / n) / std.  Both tests are the code's,
\* with the divisions multiplied out.
StdIsPositive(t) ==
    LET n == BagCardinality(t.rows)
        S == SumOver([r \in BagToSet(t.rows) |-> r.duration], t.rows)
        Q == SumOver([r \in BagToSet(t.rows) |-> r.duration * r.duration], t.rows)
    IN  n * Q - S * S > 0

AbsZOver2(t, x) ==
    LET n == BagCardinality(t.rows)
        S == SumOver([r \in BagToSet(t.rows) |-> r.duration], t.rows)
        Q == SumOver([r \in BagToSet(t.rows) |-> r.duration * r.duration], t.rows)
    IN  (n * x - S) * (n * x - S) * StdDivisor(n) > 4 * n * (n * Q - S * S)

Anomaly(r) ==
    [employee_id |-> r.employee_id, date |-> r.date, duration |-> r.duration]

detect_attendance_anomalies(t) ==
    IF IsEmpty(t) \/ "duration" \notin t.columns
          \/ BagCardinality(t.rows) < MinAnomalyRows
    THEN EmptyBag
    ELSE IF StdIsPositive(t)
    THEN LET flagged == {r \in BagToSet(t.rows) : AbsZOver2(t, r.duration)}
         IN  [a \in {Anomaly(r) : r \in flagged} |->
                 SumOver([r \in flagged |-> IF Anomaly(r) = a THEN 1 ELSE 0],
                         [r \in flagged |-> t.rows[r]])]
    ELSE EmptyBag

-----------------------------------------------------------------------------
(* The anomaly detector on tables of up to MaxAnomalyRows rows              *)
(* (SpecAnomaly).                                                          *)

MaxAnomalyRows == 10

Durations == {8, 12, 20}

AnomalyRows ==
    [employee_id : {"E1"}, date : {0}, entry_time : {9}, duration : Durations,
     status : {"PRESENT"}]

InitAnomaly ==
    /\ Idle
    /\ today = 0
    /\ attendance = {}
    /\ leave_requests = {}
    /\ df \in [columns : {AllColumns, AllColumns \ {"duration"}},
               rows : BagsUpTo(AnomalyRows, MaxAnomalyRows)]

DetectAnomalies ==
    /\ result' = [fn |-> "detect_attendance_anomalies",
                  out |-> detect_attendance_anomalies(df)]
    /\ UNCHANGED <<storeVars, daily, sess, df>>

SpecAnomaly == InitAnomaly /\ [][DetectAnomalies]_vars

-----------------------------------------------------------------------------
(* Python floats are IEEE 754 doubles: a sign, a binary exponent and a      *)
(* significand of 53 bits, kept here as its upper 27 bits (hi) and its      *)
(* lower 26 bits (lo); the value is sign * (hi * 2^26 + lo) * 2^(exp - 52). *)
(* Every operation rounds its exact result to the nearest double, ties to   *)
(* the even significand.                                                    *)

RECURSIVE Pow2(_)
Pow2(n) == IF n = 0 THEN 1 ELSE 2 * Pow2(n - 1)

Low == Pow2(26)

FloatZero == [sign |-> 0, exp |-> 0, hi |-> 0, lo |-> 0]

\* The double next above a positive double when up, else the double itself.
Nearest(sign, exp, hi, lo, up) ==
    IF ~up THEN [sign |-> sign, exp |-> exp, hi |-> hi, lo |-> lo]
    ELSE IF lo + 1 < Low THEN [sign |-> sign, exp |-> exp, hi |-> hi, lo |-> lo + 1]
    ELSE IF hi + 1 < 2 * Low THEN [sign |-> sign, exp |-> exp, hi |-> hi + 1, lo |-> 0]
    ELSE [sign |-> sign, exp |-> exp + 1, hi |-> Low, lo |-> 0]

\* The next n bits of r / d, for 0 <= r < d, and the remainder left.
RECURSIVE LongDiv(_, _, _)
LongDiv(r, d, n) ==
    IF n = 0 THEN [q |-> 0, r |-> r]
    ELSE LET b == IF 2 * r >= d THEN 1 ELSE 0
             rest == LongDiv(2 * r - b * d, d, n - 1)
         IN  [q |-> b * Pow2(n - 1) + rest.q, r |-> rest.r]

\* p / q of two Python ints, q > 0: the correctly rounded quotient.
FloatDiv(p, q) ==
    LET RECURSIVE Norm(_, _, _)
        Norm(n, d, e) == IF n < d THEN Norm(2 * n, d, e - 1)
                         ELSE IF n >= 2 * d THEN Norm(n, 2 * d, e + 1)
                         ELSE [n |-> n, d |-> d, e |-> e]
        s == Norm(IF p < 0 THEN 0 - p ELSE p, q, 0)
        top == LongDiv(s.n - s.d, s.d, 26)
        bot == LongDiv(top.r, s.d, 26)
        up == 2 * bot.r > s.d \/ (2 * bot.r = s.d /\ bot.q % 2 = 1)
    IN  IF p = 0 THEN FloatZero
        ELSE Nearest(IF p < 0 THEN 0 - 1 ELSE 1, s.e, Low + top.q, bot.q, up)

\* x * 1.5: three times the significand, cut back to 53 bits.
TimesOneAndHalf(x) ==
    LET l == (3 * x.lo) % Low
        h == 3 * x.hi + (3 * x.lo) \div Low
        cut == IF h >= 4 * Low THEN 4 ELSE 2
        hi == h \div cut
        lo == (h % cut) * (Low \div cut) + l \div cut
        up == 2 * (l % cut) > cut \/ (2 * (l % cut) = cut /\ lo % 2 = 1)
    IN  IF x.sign = 0 THEN FloatZero
        ELSE Nearest(x.sign, IF cut = 4 THEN x.exp + 1 ELSE x.exp, hi, lo, up)

\* x > y.
FloatGreater(x, y) ==
    LET Above(a, b) == \/ a.exp > b.exp
                       \/ a.exp = b.exp /\ a.hi > b.hi
                       \/ a.exp = b.exp /\ a.hi = b.hi /\ a.lo > b.lo
    IN  IF x.sign # y.sign THEN x.sign > y.sign
        ELSE IF x.sign = 1 THEN Above(x, y)
        ELSE IF x.sign = 0 - 1 THEN Above(y, x)
        ELSE FALSE

-----------------------------------------------------------------------------
(* detect_department_leave_abuse                                           *)

\* The Approved requests joined to their active user.
JoinedLeaves ==
    {l \in leave_requests :
        /\ l.status = "Approved"
        /\ l.employee_id \in DOMAIN users
        /\ users[l.employee_id]}

\* dept_leave: its keys, and its value at a key.
LeaveDepartments == {departments[l.employee_id] : l \in JoinedLeaves}

DeptLeave(dept) ==
    LET leaves == {l \in JoinedLeaves : departments[l.employee_id] = dept}
    IN  SumOver([l \in leaves |-> (l.end_date - l.start_date) + 1],
                SetToBag(leaves))

\* emp_counts: the active users of each department that has one.
EmpCounts ==
    LET active == {e \in DOMAIN users : users[e]}
    IN  [dept \in {departments[e] : e \in active} |->
            Cardinality({e \in active : departments[e] = dept})]

\* emp_counts.get(dept, 1)
EmpCountOrOne(dept) ==
    IF dept \in DOMAIN EmpCounts THEN EmpCounts[dept] ELSE 1

ZeroDivisionError == [raised |-> "ZeroDivisionError"]

detect_department_leave_abuse ==
    LET total_leave == SumOver([d \in LeaveDepartments |-> DeptLeave(d)],
                               SetToBag(LeaveDepartments))
        total_emp == SumOver(EmpCounts, SetToBag(DOMAIN EmpCounts))
        org_avg == IF total_emp # 0 THEN FloatDiv(total_leave, total_emp)
                   ELSE FloatZero
        Abused(dept) == FloatGreater(FloatDiv(DeptLeave(dept), EmpCountOrOne(dept)),
                                     TimesOneAndHalf(org_avg))
    IN  IF JoinedLeaves = {} THEN [abused |-> {}]
        ELSE IF \E dept \in LeaveDepartments : EmpCountOrOne(dept) = 0
        THEN ZeroDivisionError
        ELSE [abused |->
                 {[department |-> dept,
                   avg_leave |-> Round2(DeptLeave(dept), EmpCountOrOne(dept)),
                   org_avg |-> IF total_emp # 0 THEN Round2(total_leave, total_emp)
                               ELSE 0] :
                     dept \in {d \in LeaveDepartments : Abused(d)}}]

-----------------------------------------------------------------------------
(* Leave abuse over a staff of nine in two departments.                     *)

StaffIds == <<"E1", "E2", "E3", "E4", "E5", "E6", "E7", "E8", "E9">>

Staff == {StaffIds[i] : i \in DOMAIN StaffIds}

\* The first n of the staff work in Sales, the others in Ops.
Postings ==
    {[e \in Staff |-> IF e \in {StaffIds[i] : i \in 1 .. n} THEN "Sales" ELSE "Ops"] :
        n \in 0 .. Len(StaffIds)}

\* The employees who may have left (is_active false).
Leavers == {"E1", "E6", "E9"}

\* Requests of 17, 2, 2, 1 and 3 days.
AbuseLeaves ==
    {[employee_id |-> "E1", status |-> "Approved", start_date |-> 100, end_date |-> 116],
     [employee_id |-> "E1", status |-> "Pending", start_date |-> 120, end_date |-> 121],
     [employee_id |-> "E6", status |-> "Approved", start_date |-> 100, end_date |-> 101],
     [employee_id |-> "E7", status |-> "Approved", start_date |-> 110, end_date |-> 110],
     [employee_id |-> "E9", status |-> "Approved", start_date |-> 100, end_date |-> 102]}

InitLeaveAbuse ==
    /\ today = 200
    /\ users \in {[e \in Staff |-> e \notin gone] : gone \in SUBSET Leavers}
    /\ departments \in Postings
    /\ leave_requests \in SUBSET AbuseLeaves
    /\ holidays = {}
    /\ attendance = {}
    /\ daily = EmptyBag
    /\ sess = [s \in Sessions |-> IdleSession]
    /\ df = NoTable
    /\ result = NoResult

DetectLeaveAbuse ==
    /\ result' = [fn |-> "detect_department_leave_abuse",
                  out |-> detect_department_leave_abuse]
    /\ UNCHANGED <<storeVars, daily, sess, df>>

SpecLeaveAbuse == InitLeaveAbuse /\ [][DetectLeaveAbuse]_vars

-----------------------------------------------------------------------------
(* Properties of compile_daily_attendance.                                 *)

OneRowPerKey(B) ==
    \A r \in BagToSet(B) : RowsFor(B, r.employee_id, r.date) = 1

\* The rows a step adds to the rows session s has prepared.
Prepared(s) == BagToSet(sess'[s].pending) \ BagToSet(sess[s].pending)

RowsKept == \A r \in BagToSet(daily) : CopiesIn(r, daily') = CopiesIn(r, daily)

NoRecompile ==
    \A s \in Sessions : \A r \in Prepared(s) :
        RowsFor(daily, r.employee_id, r.date) = 0

\* C1: over any sequence of compile runs for a date, with leave requests,
\* holidays and raw facts changing in between, every compiled row keeps its
\* status and check-in time, no run prepares a row for an (employee, date)
\* that is already compiled, and no (employee, date) has two rows.
C1_RerunIsNoOp ==
    [][RowsKept /\ NoRecompile /\ OneRowPerKey(daily')]_vars

\* A re-run that has gone through two users and prepared nothing, while one
\* compiled row's status is no longer what the facts give.
C1_Witness ==
    /\ sess[1].pc = "loop"
    /\ sess[1].todo = {}
    /\ Cardinality(sess[1].users) = 2
    /\ sess[1].pending = EmptyBag
    /\ \E r \in BagToSet(daily) :
          /\ r.date = sess[1].target_date
          /\ r.status = "ABSENT"
          /\ \A res \in Resolutions(r.employee_id, r.date) : res.status = "LEAVE"

\* C2: with two runs for the same date interleaved in any order, the store
\* never holds two rows for one (employee, date).
C2_NoDuplicateRows == OneRowPerKey(daily)

\* Two runs raced: one committed, and the other's commit was rejected.
C2_Witness ==
    \E s \in Sessions, t \in Sessions :
        /\ sess[s].pc = "done"
        /\ sess[t].error = "IntegrityError"
        /\ sess[t].discarded = 2

\* The status the precedence LEAVE > HOLIDAY > WEEKEND > PRESENT / ABSENT
\* gives employee e on date d.
Precedence(e, d) ==
    LET leave == \E l \in leave_requests :
                     /\ l.employee_id = e /\ l.status = "Approved"
                     /\ d \in l.start_date .. l.end_date
        holiday == d \in holidays
        weekend == d % 7 \in {5, 6}
        fact == \E a \in attendance : a.employee_id = e /\ a.date = d
    IN  CASE leave -> "LEAVE"
          [] ~leave /\ holiday -> "HOLIDAY"
          [] ~leave /\ ~holiday /\ weekend -> "WEEKEND"
          [] ~leave /\ ~holiday /\ ~weekend /\ fact -> "PRESENT"
          [] OTHER -> "ABSENT"

\* C3: the row a run prepares for an active employee and the target date has
\* the status the precedence gives, and a check-in time only when PRESENT.
C3_StatusPrecedence ==
    [][\A s \in Sessions : \A r \in Prepared(s) :
          /\ r.employee_id \in sess[s].users
          /\ r.date = sess[s].target_date
          /\ r.status = Precedence(r.employee_id, r.date)
          /\ r.check_in_time # Null => r.status = "PRESENT"]_vars

\* A LEAVE row prepared for a date that is a holiday and a weekend too.
C3_Witness ==
    \E r \in BagToSet(sess[1].pending) :
        /\ r.status = "LEAVE"
        /\ r.date \in holidays
        /\ r.date % 7 >= 5
        /\ Precedence(r.employee_id, r.date) = "LEAVE"

\* C4: a run commits all the rows it prepared or none.  A run that fails
\* changes no committed row and loses what it prepared; committed rows change
\* only when a run ends well, by all its prepared rows; and then every user
\* the run read has exactly one row for the target date.
C4_AllOrNothing ==
    [][/\ \A s \in Sessions :
             sess[s].pc # "failed" /\ sess'[s].pc = "failed"
                 => daily' = daily /\ sess'[s].pending = EmptyBag
       /\ daily' # daily =>
             \E s \in Sessions :
                 /\ sess[s].pc = "loop" /\ sess'[s].pc = "done"
                 /\ daily' = daily (+) sess[s].pending
       /\ \A s \in Sessions :
             sess[s].pc = "loop" /\ sess'[s].pc = "done"
                 => \A e \in sess[s].users :
                        RowsFor(daily', e, sess[s].target_date) = 1]_vars

\* A run failed after preparing a row, and the date has no committed row.
C4_Witness ==
    \E s \in Sessions :
        /\ sess[s].pc = "failed"
        /\ sess[s].error = "OperationalError"
        /\ sess[s].discarded = 1
        /\ \A e \in Employees : RowsFor(daily, e, today) = 0

-----------------------------------------------------------------------------
(* Properties of compute_behavior_metrics.                                 *)

Returned(fn) == result.fn = fn /\ "raised" \notin DOMAIN result.out

MetricKeys ==
    {"average_login_hour", "average_work_hours", "late_arrival_days",
     "absent_days", "leave_days", "present_days", "min_work_hours",
     "max_work_hours", "total_days_analyzed", "absence_trend",
     "attendance_score", "risk_level", "chart_breakdown"}

\* C5: for every table and every set of Approved leave requests, whatever
\* their start and end dates, the attendance_score of the report lies in
\* [0, 100], and it is 0 whenever present_days is 0.
C5_ScoreWithinBounds ==
    Returned("compute_behavior_metrics") =>
        /\ result.out.attendance_score \in 0 .. 100
        /\ result.out.present_days = 0 => result.out.attendance_score = 0

\* C6: compute_behavior_metrics never raises, and on a table that is empty or
\* lacks entry_time, status or duration it returns the default report, with
\* every documented key, for every employee_id argument.
C6_DefaultNeverRaises ==
    result.fn = "compute_behavior_metrics" =>
        /\ "raised" \notin DOMAIN result.out
        /\ (IsEmpty(df) \/ {"entry_time", "status", "duration"} \ df.columns # {})
               => /\ DOMAIN result.out = MetricKeys
                  /\ result.out.attendance_score = 0
                  /\ result.out.risk_level = "high"
                  /\ result.out.chart_breakdown = [labels |-> << >>, values |-> << >>]
                  /\ \A k \in MetricKeys \ {"absence_trend", "risk_level",
                                            "chart_breakdown"} :
                         result.out[k] = 0
                  /\ result.out.absence_trend = "stable"

\* C7: in every report, the default one included, risk_level follows from
\* attendance_score alone: high below 60, medium from 60 to 79, low from 80.
C7_RiskLevelByScore ==
    Returned("compute_behavior_metrics") =>
        LET score == result.out.attendance_score
            level == result.out.risk_level
        IN  /\ score < 60 => level = "high"
            /\ 60 <= score /\ score < 80 => level = "medium"
            /\ score >= 80 => level = "low"
            /\ score = 59 => level = "high"
            /\ score \in {60, 79} => level = "medium"
            /\ score = 80 => level = "low"

\* A report whose score is exactly 60.
C7_Witness ==
    /\ Returned("compute_behavior_metrics")
    /\ result.out.attendance_score = 60
    /\ result.out.risk_level = "medium"

-----------------------------------------------------------------------------
(* Properties of predict_absenteeism_risk and get_attendance_dataframe.    *)

\* C8: predict_absenteeism_risk(E) returns risk_score = 2 x (E's raw ABSENT
\* facts dated within the trailing 90 days) + 10 if E's attendance_score over
\* the 180-day window is below 70; risk is high from 20, medium from 10, low
\* otherwise; 2 absences and a score of 65 give 14 and medium.
C8_RiskScore ==
    result.fn = "predict_absenteeism_risk" =>
        LET E == result.employee_id
            absences ==
                Cardinality({a \in attendance :
                                /\ a.employee_id = E
                                /\ a.status = "ABSENT"
                                /\ a.date \in (today - 90) .. today})
            score == compute_behavior_metrics(get_attendance_dataframe(E),
                                              TRUE, E).attendance_score
            expected == 2 * absences + IF score < 70 THEN 10 ELSE 0
        IN  /\ result.out.employee_id = E
            /\ result.out.risk_score = expected
            /\ result.out.risk =
                   CASE expected >= 20 -> "high"
                     [] expected >= 10 /\ expected < 20 -> "medium"
                     [] OTHER -> "low"
            /\ absences = 2 /\ score = 65
                   => result.out.risk_score = 14 /\ result.out.risk = "medium"

\* C9: get_attendance_dataframe returns exactly the raw facts that have an
\* entry_time, are dated within [today - 180, today] and, when an employee is
\* given, belong to that employee.
C9_ExtractorWindow ==
    result.fn = "get_attendance_dataframe" =>
        LET given == result.employee_id \notin {None, ""}
            wanted == {a \in attendance :
                          /\ a.entry_time # Null
                          /\ a.date \in (today - 180) .. today
                          /\ given => a.employee_id = result.employee_id}
            key(r) == <<r.employee_id, r.date, r.entry_time, r.status>>
        IN  /\ \A r \in BagToSet(result.out.rows) :
                   /\ r.entry_time # Null
                   /\ r.date \in (today - 180) .. today
                   /\ given => r.employee_id = result.employee_id
            /\ {key(r) : r \in BagToSet(result.out.rows)} = {key(a) : a \in wanted}
            /\ BagCardinality(result.out.rows) = Cardinality(wanted)

-----------------------------------------------------------------------------
(* Properties of detect_attendance_anomalies.                              *)

\* The rows of table t whose duration lies more than 2 standard deviations
\* from the mean, the standard deviation taken with the divisor n - ddof.
\* dev is n x (duration - mean) and ss is n x n x (the sum of the squared
\* deviations from the mean).
Outliers(t, ddof) ==
    LET n == BagCardinality(t.rows)
        total == SumOver([r \in BagToSet(t.rows) |-> r.duration], t.rows)
        dev == [r \in BagToSet(t.rows) |-> n * r.duration - total]
        ss == SumOver([r \in BagToSet(t.rows) |-> dev[r] * dev[r]], t.rows)
    IN  IF n < 10 \/ ss = 0 THEN {}
        ELSE {r \in BagToSet(t.rows) : dev[r] * dev[r] * (n - ddof) > 4 * ss}

FlagsExactly(S) ==
    /\ BagToSet(result.out) = {Anomaly(r) : r \in S}
    /\ \A r \in S : CopiesIn(Anomaly(r), result.out) = CopiesIn(r, df.rows)

NineEightsOneTwenty ==
    /\ BagCardinality(df.rows) = 10
    /\ \E r \in BagToSet(df.rows) : r.duration = 8 /\ CopiesIn(r, df.rows) = 9
    /\ \E r \in BagToSet(df.rows) : r.duration = 20 /\ CopiesIn(r, df.rows) = 1

AnomalyCall ==
    result.fn = "detect_attendance_anomalies" /\ "duration" \in df.columns

\* C10 as claimed: no anomalies under 10 rows or with zero standard
\* deviation, and otherwise exactly the rows with |z| > 2 for the POPULATION
\* standard deviation of duration.
C10_PopulationZScore ==
    AnomalyCall => FlagsExactly(Outliers(df, 0))

\* C10 as amended: the same with the SAMPLE standard deviation (divisor
\* n - 1), which is what Series.std() computes; 9 rows of 8 and one of 20
\* flag exactly the row of 20.
C10_SampleZScore ==
    AnomalyCall =>
        /\ FlagsExactly(Outliers(df, 1))
        /\ BagCardinality(df.rows) < 10 => result.out = EmptyBag
        /\ NineEightsOneTwenty =>
               /\ result.out # EmptyBag
               /\ \A a \in BagToSet(result.out) :
                      a.duration = 20 /\ CopiesIn(a, result.out) = 1

\* The detector was run on 9 rows of 8 and one of 20, and flagged one row.
C10_Witness ==
    /\ AnomalyCall
    /\ NineEightsOneTwenty
    /\ BagCardinality(result.out) = 1

-----------------------------------------------------------------------------
(* Properties of detect_department_leave_abuse.                            *)

ActiveStaff(dept) == {e \in DOMAIN users : users[e] /\ departments[e] = dept}

\* The approved leave days of the active employees in a set.
ApprovedDays(S) ==
    LET leaves == {l \in leave_requests :
                      l.status = "Approved" /\ l.employee_id \in S}
    IN  SumOver([l \in leaves |-> (l.end_date - l.start_date) + 1],
                SetToBag(leaves))

AllActive == {e \in DOMAIN users : users[e]}

\* days / headcount > 1.5 * (all days / all active employees), in integers.
ExceedsThreshold(dept) ==
    /\ ActiveStaff(dept) # {}
    /\ 2 * ApprovedDays(ActiveStaff(dept)) * Cardinality(AllActive)
          > 3 * ApprovedDays(AllActive) * Cardinality(ActiveStaff(dept))

\* C11: detect_department_leave_abuse never divides by zero, returns exactly
\* the departments whose approved leave days per active employee exceed 1.5
\* times the approved leave days per active employee of the organisation, and
\* returns nothing when no leave request is approved.
C11_LeaveAbuse ==
    result.fn = "detect_department_leave_abuse" =>
        /\ "raised" \notin DOMAIN result.out
        /\ {a.department : a \in result.out.abused}
              = {dept \in {"Sales", "Ops"} : ExceedsThreshold(dept)}
        /\ (\A l \in leave_requests : l.status # "Approved")
              => result.out.abused = {}

-----------------------------------------------------------------------------
(* Properties of the single-employee queries on an unknown employee.       *)

\* The last call was a single-employee query for an id no employee carries.
UnknownEmployeeQuery ==
    /\ result.fn \in {"predict_absenteeism_risk", "get_attendance_dataframe"}
    /\ Truthy(result.employee_id)
    /\ result.employee_id \notin DOMAIN users

\* C12: predict_absenteeism_risk and get_attendance_dataframe, given an
\* employee id that matches no employee, end in a failure that names the
\* employee id, and return no risk classification and no table.
C12_UnknownEmployeeFails ==
    UnknownEmployeeQuery =>
        /\ "raised" \in DOMAIN result.out
        /\ result.out.key = "employee_id"

====
